---- MODULE Spec2Model ----
(***************************************************************************)
(* A model of the inclusion tracker, the verifier-input builder, the       *)
(* deployment operations of the process, the authorization of a call, the  *)
(* finalize commands with their byte and text forms, and the state-path    *)
(* circuit builder, as implemented in synthesizer/src.                     *)
(***************************************************************************)
EXTENDS Integers, Sequences, FiniteSets, TLC

(***************************************************************************)
(* Bounds of the model.                                                    *)
(***************************************************************************)
\* The size of a transaction: each transition counts 1, plus its inputs and outputs.
MaxWork == 5
\* The longest list of input IDs or inputs of a call that is rejected.
MaxMismatch == 3
\* The largest number of declared input types of a function, and of supplied inputs.
MaxArity == 2

(***************************************************************************)
(* Program constants.                                                      *)
(***************************************************************************)
\* `index as u8`
U8 == 256
\* `transition_index as u16`
U16 == 65536

(***************************************************************************)
(* Values.  Field elements, group elements and identifiers are opaque      *)
(* tokens; a hash or a commitment is modelled as an injective tagging of   *)
(* its arguments.                                                          *)
(***************************************************************************)
Commitments == {"c1", "c2"}
Gammas == {"g1"}
TransitionIDs == {"t1", "t2"}

None == [none |-> TRUE]

\* Record::serial_number_from_gamma: Commit( commitment || Hash( COFACTOR * gamma ) ).
SerialNumberFromGamma(gamma, commitment) == <<"sn", gamma, commitment>>

SerialNumbers == {SerialNumberFromGamma(g, c) : g \in Gammas, c \in Commitments}

\* InputID<N>: the record variant carries (commitment, gamma, serial_number, ..).
RecordInputIDs ==
    {[variant |-> "Record", commitment |-> c, gamma |-> g,
      serial_number |-> SerialNumberFromGamma(g, c)] : c \in Commitments, g \in Gammas}

PublicInputID == [variant |-> "Public", id |-> "h"]

InputIDs == RecordInputIDs \cup {PublicInputID}

\* Input<N> of a transition: Input::Record(serial_number, tag) or a non-record input.
RecordInputs == {[variant |-> "Record", id |-> s] : s \in SerialNumbers}

PublicInput == [variant |-> "Public", id |-> "h"]

Inputs == RecordInputs \cup {PublicInput}

\* Output<N> of a transition: Output::Record(commitment, ..) or a non-record output.
RecordOutputs == {[variant |-> "Record", id |-> c] : c \in Commitments}

PublicOutput == [variant |-> "Public", id |-> "h"]

Outputs == RecordOutputs \cup {PublicOutput}

\* The sequences over S of length at most n.
SeqUpTo(S, n) == UNION {[1..k -> S] : k \in 0..n}

\* The transition input that a request's input ID stands for.
InputOf(input_id) ==
    IF input_id.variant = "Record"
    THEN [variant |-> "Record", id |-> input_id.serial_number]
    ELSE PublicInput

InputsOf(input_ids) == [i \in 1..Len(input_ids) |-> InputOf(input_ids[i])]

(***************************************************************************)
(* State.                                                                  *)
(***************************************************************************)
VARIABLES
    input_tasks,         \* Inclusion.input_tasks: transition ID -> list of input tasks
    output_commitments,  \* Inclusion.output_commitments: commitment -> (transition ID, index)
    transitions,         \* the transitions of the transaction inserted so far, in order
    insert_result,       \* the last insert_transition call and what it returned
    pvi_out,             \* the last prepare_verifier_inputs call and what it returned
    stacks,              \* Process.stacks: program ID -> stack
    process_out,         \* the last call on the process or a stack and what it returned
    store,               \* FinalizeStore: mapping name -> (key -> value)
    registers,           \* FinalizeRegisters: register -> value
    finalize_out,        \* the last Command::finalize call and what it returned
    codec_out,           \* the last read_le / write_le of a command and what it returned
    text_out,            \* the last parse / from_str / to_string of a command
    circuit_env,         \* the circuit environment A: its counts
    circuit_out          \* the last to_circuit_assignment call and what it returned

vars == <<input_tasks, output_commitments, transitions, insert_result, pvi_out,
          stacks, process_out, store, registers, finalize_out, codec_out, text_out,
          circuit_env, circuit_out>>

inclusionVars == <<input_tasks, output_commitments, transitions, insert_result>>

processVars == <<stacks, process_out>>

finalizeVars == <<store, registers, finalize_out>>

codecVars == <<codec_out, text_out>>

circuitVars == <<circuit_env, circuit_out>>

(***************************************************************************)
(* Inclusion::insert_transition                                            *)
(***************************************************************************)
\* Input::to_transition_leaf(index): the leaf (index || variant || ID) of an input.
ToTransitionLeaf(input, index) ==
    [index |-> index, variant |-> input.variant, id |-> input.id]

\* A resolution of is_local that has the lookup inverted.
IsLocalInverted(commitment, index_map) == commitment \notin DOMAIN index_map

\* is_local: self.output_commitments.contains_key(commitment)
IsLocal(commitment, index_map) == commitment \in DOMAIN index_map

\* The task pushed for the input at the 0-based position `index`.
NewInputTask(input, input_id, index, index_map) ==
    [commitment |-> input_id.commitment,
     gamma |-> input_id.gamma,
     serial_number |-> input_id.serial_number,
     leaf |-> ToTransitionLeaf(input, index % U8),
     is_local |-> IsLocal(input_id.commitment, index_map)]

\* The loop over the inputs: the tasks pushed for positions k..Len(input_ids).
RECURSIVE ProcessInputs(_, _, _, _)
ProcessInputs(inputs, input_ids, k, index_map) ==
    IF k > Len(input_ids) THEN <<>>
    ELSE (IF input_ids[k].variant = "Record"
          THEN <<NewInputTask(inputs[k], input_ids[k], k - 1, index_map)>>
          ELSE <<>>)
         \o ProcessInputs(inputs, input_ids, k + 1, index_map)

\* HashMap::insert: the entry for `key` is added or overwritten.
MapInsert(map, key, value) ==
    [x \in DOMAIN map \cup {key} |-> IF x = key THEN value ELSE map[x]]

\* An output index that counts the outputs alone.
OutputIndexFromZero(num_input_ids, index) == index % U8

\* The index stored for the output at the 0-based position `index`.
OutputIndex(num_input_ids, index) == (num_input_ids + index) % U8

\* The loop over the outputs, from position k on.
RECURSIVE ProcessOutputs(_, _, _, _, _)
ProcessOutputs(index_map, outputs, tid, num_input_ids, k) ==
    IF k > Len(outputs) THEN index_map
    ELSE ProcessOutputs(
             IF outputs[k].variant = "Record"
             THEN MapInsert(index_map, outputs[k].id, <<tid, OutputIndex(num_input_ids, k - 1)>>)
             ELSE index_map,
             outputs, tid, num_input_ids, k + 1)

\* An entry that is started afresh on every call.
EntryFresh(map, key) == <<>>

\* self.input_tasks.entry(id).or_default()
EntryOrDefault(map, key) == IF key \in DOMAIN map THEN map[key] ELSE <<>>

\* A length check that only rejects a list of input IDs that is too long.
InsertAcceptsShort(input_ids, transition) == Len(input_ids) <= Len(transition.inputs)

\* The length check that insert_transition starts with.
InsertAccepts(input_ids, transition) == Len(input_ids) = Len(transition.inputs)

\* An insertion that adds the outputs before it resolves the inputs.
InsertTransitionOutputsFirst(input_ids, transition) ==
    /\ insert_result' = [num_input_ids |-> Len(input_ids),
                         num_inputs |-> Len(transition.inputs),
                         ok |-> InsertAccepts(input_ids, transition)]
    /\ IF ~InsertAccepts(input_ids, transition)
       THEN UNCHANGED <<input_tasks, output_commitments, transitions>>
       ELSE /\ output_commitments' =
                  ProcessOutputs(output_commitments, transition.outputs, transition.id,
                                 Len(input_ids), 1)
            /\ input_tasks' =
                  MapInsert(input_tasks, transition.id,
                            EntryOrDefault(input_tasks, transition.id)
                            \o ProcessInputs(transition.inputs, input_ids, 1,
                                             output_commitments'))
            /\ transitions' = Append(transitions, transition)
    /\ UNCHANGED <<pvi_out, stacks, process_out, finalizeVars, codecVars, circuitVars>>

\* An insertion that takes the entry of the transition ID before the length check.
InsertTransitionEntryFirst(input_ids, transition) ==
    /\ insert_result' = [num_input_ids |-> Len(input_ids),
                         num_inputs |-> Len(transition.inputs),
                         ok |-> InsertAccepts(input_ids, transition)]
    /\ IF ~InsertAccepts(input_ids, transition)
       THEN /\ input_tasks' =
                  MapInsert(input_tasks, transition.id,
                            EntryOrDefault(input_tasks, transition.id))
            /\ UNCHANGED <<output_commitments, transitions>>
       ELSE /\ input_tasks' =
                  MapInsert(input_tasks, transition.id,
                            EntryOrDefault(input_tasks, transition.id)
                            \o ProcessInputs(transition.inputs, input_ids, 1, output_commitments))
            /\ output_commitments' =
                  ProcessOutputs(output_commitments, transition.outputs, transition.id,
                                 Len(input_ids), 1)
            /\ transitions' = Append(transitions, transition)
    /\ UNCHANGED <<pvi_out, stacks, process_out, finalizeVars, codecVars, circuitVars>>

\* Inclusion::insert_transition(input_ids, transition).
InsertTransition(input_ids, transition) ==
    /\ insert_result' = [num_input_ids |-> Len(input_ids),
                         num_inputs |-> Len(transition.inputs),
                         ok |-> InsertAccepts(input_ids, transition)]
    /\ IF ~InsertAccepts(input_ids, transition)
       THEN UNCHANGED <<input_tasks, output_commitments, transitions>>
       ELSE /\ input_tasks' =
                  MapInsert(input_tasks, transition.id,
                            EntryOrDefault(input_tasks, transition.id)
                            \o ProcessInputs(transition.inputs, input_ids, 1, output_commitments))
            /\ output_commitments' =
                  ProcessOutputs(output_commitments, transition.outputs, transition.id,
                                 Len(input_ids), 1)
            /\ transitions' = Append(transitions, transition)
    /\ UNCHANGED <<pvi_out, stacks, process_out, finalizeVars, codecVars, circuitVars>>

\* The size of a transition and of the transaction.
Work(transition) == 1 + Len(transition.inputs) + Len(transition.outputs)

RECURSIVE TotalWork(_)
TotalWork(ts) == IF ts = <<>> THEN 0 ELSE Work(Head(ts)) + TotalWork(Tail(ts))

\* A caller inserts the next transition of its transaction with the input IDs of
\* the request that produced it.
InsertMatching ==
    \E tid \in TransitionIDs, n \in 0..MaxWork, m \in 0..MaxWork :
        /\ TotalWork(transitions) + 1 + n + m <= MaxWork
        /\ \E input_ids \in [1..n -> InputIDs], outputs \in [1..m -> Outputs] :
              InsertTransition(input_ids,
                  [id |-> tid, inputs |-> InputsOf(input_ids), outputs |-> outputs])

\* A caller passes a list of input IDs that is not the transition's.
InsertMismatched ==
    \E n \in 0..MaxMismatch, k \in 0..MaxMismatch :
        /\ n = k + 1 \/ k = n + 1
        /\ InsertTransition([i \in 1..n |-> PublicInputID],
               [id |-> "t1", inputs |-> [i \in 1..k |-> PublicInput], outputs |-> <<>>])

(***************************************************************************)
(* Inclusion::prepare_verifier_inputs                                      *)
(***************************************************************************)
\* Field::zero() and N::Field::one().
FieldZero == 0

FieldOne == 1

\* The global state roots a caller supplies.
GlobalStateRoots == {FieldZero, 7}

\* The root of the transaction tree holding `leaves`, in order.
MerkleRoot(leaves) == [root_of |-> leaves]

\* TransactionLeaf::new_execution(transition_index as u16, id)
NewExecutionLeaf(transition_index, id) ==
    [variant |-> "Execution", index |-> transition_index % U16, id |-> id]

\* A filter that takes every input for a record.
PviAnyInput(input) == TRUE

\* `if let Input::Record(serial_number, _) = input`
PviIsRecord(input) == input.variant = "Record"

\* The loop over the inputs of one transition, from position k on.
RECURSIVE PviInputs(_, _, _, _)
PviInputs(inputs, k, global_state_root, local_state_root) ==
    IF k > Len(inputs) THEN <<>>
    ELSE (IF PviIsRecord(inputs[k])
          THEN << <<FieldOne, global_state_root, local_state_root, inputs[k].id>> >>
          ELSE <<>>)
         \o PviInputs(inputs, k + 1, global_state_root, local_state_root)

\* A loop that appends the leaf of every transition.
PviAppendsAlways(transition_index, num_transitions) == TRUE

\* `if transition_index + 1 != num_transitions`
PviAppends(transition_index, num_transitions) == transition_index + 1 # num_transitions

\* The loop over the transitions, from the 0-based `transition_index` on.
RECURSIVE PviLoop(_, _, _, _, _)
PviLoop(global_state_root, ts, transition_index, transaction_tree, batch) ==
    IF transition_index >= Len(ts)
    THEN [transaction_tree |-> transaction_tree, batch |-> batch]
    ELSE LET transition == ts[transition_index + 1]
             local_state_root == MerkleRoot(transaction_tree)
         IN PviLoop(global_state_root, ts, transition_index + 1,
                    IF PviAppends(transition_index, Len(ts))
                    THEN Append(transaction_tree,
                                NewExecutionLeaf(transition_index, transition.id))
                    ELSE transaction_tree,
                    batch \o PviInputs(transition.inputs, 1, global_state_root,
                                       local_state_root))

\* A check that rejects the zero root when there are vectors.
PviRejectsWithRecords(batch, global_state_root) ==
    batch # <<>> /\ global_state_root = FieldZero

\* A check that rejects the zero root alone.
PviRejectsEither(batch, global_state_root) == batch = <<>> \/ global_state_root = FieldZero

\* `if batch_verifier_inputs.is_empty() && *global_state_root == Field::zero()`
PviRejects(batch, global_state_root) == batch = <<>> /\ global_state_root = FieldZero

PrepareVerifierInputs(global_state_root, ts) ==
    LET end == PviLoop(global_state_root, ts, 0, <<>>, <<>>)
    IN /\ pvi_out' = [global_state_root |-> global_state_root,
                      transitions |-> ts,
                      transaction_tree |-> end.transaction_tree,
                      ok |-> ~PviRejects(end.batch, global_state_root),
                      inputs |-> IF PviRejects(end.batch, global_state_root)
                                 THEN <<>> ELSE end.batch]
       /\ UNCHANGED <<input_tasks, output_commitments, transitions, insert_result,
                      stacks, process_out, finalizeVars, codecVars, circuitVars>>

\* The verifier inputs are prepared for the transitions of the transaction.
Prepare == \E global_state_root \in GlobalStateRoots :
               PrepareVerifierInputs(global_state_root, transitions)

(***************************************************************************)
(* Process::deploy, Process::verify_deployment, Process::load_deployment   *)
(***************************************************************************)
ProgramIDs == {"p1", "p2"}
FunctionNames == {"f", "g"}

\* The lists of declared input types of a function.
InputTypeLists == SeqUpTo({"field"}, MaxArity)

\* The functions of a program: function name -> its declaration.
FunctionMaps ==
    UNION {[names -> [input_types : InputTypeLists]] : names \in SUBSET FunctionNames}

\* Program<N>; `well_formed` says whether a stack can be built from it.
Programs == [id : ProgramIDs, functions : FunctionMaps, well_formed : BOOLEAN]

\* The verifying key that is synthesized for a function of a program.
VerifyingKey(program, function_name) == <<"vk", program.id, function_name>>

\* Deployment<N>: the program, one (verifying key, certificate) per function,
\* and whether the certificates check out.
Deployments ==
    {[program |-> program,
      verifying_keys |-> [name \in DOMAIN program.functions |-> VerifyingKey(program, name)],
      certificates_valid |-> valid] : program \in Programs, valid \in BOOLEAN}

\* Process::contains_program
ContainsProgram(process_stacks, program_id) == program_id \in DOMAIN process_stacks

\* Stack::new(process, program): fails when the process already holds the
\* program ID or the program is malformed; a new stack holds no verifying key.
StackNew(process_stacks, program) ==
    IF ContainsProgram(process_stacks, program.id) \/ ~program.well_formed
    THEN [ok |-> FALSE]
    ELSE [ok |-> TRUE, stack |-> [program |-> program, verifying_keys |-> <<>>]]

\* Process::add_stack: the stack is registered under its program ID.
AddStack(process_stacks, stack) == MapInsert(process_stacks, stack.program.id, stack)

\* What a call on the process returned: the operation, the program ID, the
\* result and the steps of the operation that were reached, in order.
ProcessOut(op, program_id, ok, steps) ==
    [op |-> op, program_id |-> program_id, ok |-> ok, steps |-> steps]

\* A deploy that registers the stack it has built and synthesized.
DeployRegisters(program, synthesis_ok) ==
    LET built == StackNew(stacks, program)
    IN IF ~built.ok
       THEN /\ process_out' = ProcessOut("deploy", program.id, FALSE, <<"Stack::new">>)
            /\ UNCHANGED stacks
       ELSE /\ process_out' = ProcessOut("deploy", program.id, synthesis_ok,
                                         <<"Stack::new", "Stack::deploy">>)
            /\ stacks' = IF synthesis_ok THEN AddStack(stacks, built.stack) ELSE stacks

\* Process::deploy; `synthesis_ok` is whether Stack::deploy produced the keys
\* and certificates.
Deploy(program, synthesis_ok) ==
    LET built == StackNew(stacks, program)
    IN /\ process_out' =
             IF ~built.ok THEN ProcessOut("deploy", program.id, FALSE, <<"Stack::new">>)
             ELSE ProcessOut("deploy", program.id, synthesis_ok,
                             <<"Stack::new", "Stack::deploy">>)
       /\ UNCHANGED stacks

\* A verify_deployment that registers the stack it has verified.
VerifyDeploymentRegisters(deployment) ==
    LET program_id == deployment.program.id
        built == StackNew(stacks, deployment.program)
    IN IF ContainsProgram(stacks, program_id)
       THEN /\ process_out' = ProcessOut("verify_deployment", program_id, FALSE,
                                         <<"contains_program">>)
            /\ UNCHANGED stacks
       ELSE IF ~built.ok
       THEN /\ process_out' = ProcessOut("verify_deployment", program_id, FALSE,
                                         <<"contains_program", "Stack::new">>)
            /\ UNCHANGED stacks
       ELSE /\ process_out' = ProcessOut("verify_deployment", program_id,
                                         deployment.certificates_valid,
                                         <<"contains_program", "Stack::new",
                                           "Stack::verify_deployment">>)
            /\ stacks' = AddStack(stacks, built.stack)

\* A verify_deployment without the check for an existing program: the first
\* thing it does is build the stack.
VerifyDeploymentUnchecked(deployment) ==
    LET program_id == deployment.program.id
        built == StackNew(stacks, deployment.program)
    IN /\ process_out' =
             IF ~built.ok
             THEN ProcessOut("verify_deployment", program_id, FALSE, <<"Stack::new">>)
             ELSE ProcessOut("verify_deployment", program_id, deployment.certificates_valid,
                             <<"Stack::new", "Stack::verify_deployment">>)
       /\ UNCHANGED stacks

\* Process::verify_deployment
VerifyDeployment(deployment) ==
    LET program_id == deployment.program.id
        built == StackNew(stacks, deployment.program)
    IN /\ process_out' =
             IF ContainsProgram(stacks, program_id)
             THEN ProcessOut("verify_deployment", program_id, FALSE, <<"contains_program">>)
             ELSE IF ~built.ok
             THEN ProcessOut("verify_deployment", program_id, FALSE,
                             <<"contains_program", "Stack::new">>)
             ELSE ProcessOut("verify_deployment", program_id, deployment.certificates_valid,
                             <<"contains_program", "Stack::new", "Stack::verify_deployment">>)
       /\ UNCHANGED stacks

\* The stack with the verifying keys of the deployment inserted.
InsertVerifyingKeys(stack, deployment) ==
    [stack EXCEPT !.verifying_keys = deployment.verifying_keys]

\* A load_deployment that registers the stack although Stack::new failed.
LoadDeploymentUnchecked(deployment, keys_ok) ==
    /\ process_out' = ProcessOut("load_deployment", deployment.program.id, TRUE,
                                 <<"Stack::new", "insert_verifying_key", "add_stack">>)
    /\ stacks' = AddStack(stacks, InsertVerifyingKeys(
                     [program |-> deployment.program, verifying_keys |-> <<>>], deployment))

\* Process::load_deployment; `keys_ok` is whether every insert_verifying_key
\* call succeeded.
LoadDeployment(deployment, keys_ok) ==
    LET program_id == deployment.program.id
        built == StackNew(stacks, deployment.program)
    IN IF ~built.ok
       THEN /\ process_out' = ProcessOut("load_deployment", program_id, FALSE, <<"Stack::new">>)
            /\ UNCHANGED stacks
       ELSE IF ~keys_ok
       THEN /\ process_out' = ProcessOut("load_deployment", program_id, FALSE,
                                         <<"Stack::new", "insert_verifying_key">>)
            /\ UNCHANGED stacks
       ELSE /\ process_out' = ProcessOut("load_deployment", program_id, TRUE,
                                         <<"Stack::new", "insert_verifying_key", "add_stack">>)
            /\ stacks' = AddStack(stacks, InsertVerifyingKeys(built.stack, deployment))

DoDeploy ==
    /\ \E program \in Programs, synthesis_ok \in BOOLEAN : Deploy(program, synthesis_ok)
    /\ UNCHANGED <<inclusionVars, pvi_out, finalizeVars, codecVars, circuitVars>>

DoVerifyDeployment ==
    /\ \E deployment \in Deployments : VerifyDeployment(deployment)
    /\ UNCHANGED <<inclusionVars, pvi_out, finalizeVars, codecVars, circuitVars>>

DoLoadDeployment ==
    /\ \E deployment \in Deployments, keys_ok \in BOOLEAN :
          /\ (DOMAIN deployment.verifying_keys = {}) => keys_ok
          /\ LoadDeployment(deployment, keys_ok)
    /\ UNCHANGED <<inclusionVars, pvi_out, finalizeVars, codecVars, circuitVars>>

(***************************************************************************)
(* Stack::authorize                                                        *)
(***************************************************************************)
\* The function names a caller passes: those of programs and one that is no
\* identifier.
CallNames == FunctionNames \cup {"9"}

\* function_name.try_into(): whether the name converts to an Identifier.
IsIdentifier(name) == name \in FunctionNames

\* Stack::get_function: whether the program of the stack has the function.
HasFunction(stack, function_name) == function_name \in DOMAIN stack.program.functions

\* A check that only rejects too many inputs.
InputCountAtMost(inputs, input_types) == Len(inputs) <= Len(input_types)

\* `inputs.len() != input_types.len()` does not hold.
InputCountMatches(inputs, input_types) == Len(inputs) = Len(input_types)

\* Request::sign: the request binding the program ID, the function name, the
\* inputs and the input types under the private key.
SignRequest(private_key, program_id, function_name, inputs, input_types) ==
    [signer |-> private_key, program_id |-> program_id, function_name |-> function_name,
     inputs |-> inputs, input_types |-> input_types]

\* Authorization::new(&[request])
NewAuthorization(requests) == [requests |-> requests]

\* What an authorize call returned.
AuthorizeOut(stack, function_name, inputs, ok, steps, authorization) ==
    [op |-> "authorize", program_id |-> stack.program.id, ok |-> ok, steps |-> steps,
     function_name |-> function_name, num_inputs |-> Len(inputs),
     authorization |-> authorization]

\* Stack::execute_function under CallStack::Authorize(requests, private_key,
\* authorization): whether the run succeeded, and the stack after it, which
\* the run leaves as it was.  `execute_ok` is the outcome of the run.
ExecuteFunction(stack, call_stack, execute_ok) == [ok |-> execute_ok, stack |-> stack]

\* An authorize that signs the request before it compares the counts.
AuthorizeResultSignsFirst(stack, private_key, function_name, inputs, sign_ok, execute_ok) ==
    LET out(ok, steps, authorization) ==
            AuthorizeOut(stack, function_name, inputs, ok, steps, authorization)
    IN IF DOMAIN stack.program.functions = {}
       THEN out(FALSE, <<"functions">>, None)
       ELSE IF ~IsIdentifier(function_name)
       THEN out(FALSE, <<"functions", "function_name">>, None)
       ELSE IF ~HasFunction(stack, function_name)
       THEN out(FALSE, <<"functions", "function_name", "get_function">>, None)
       ELSE LET input_types == stack.program.functions[function_name].input_types
                signed == <<"functions", "function_name", "get_function", "Request::sign">>
                request == SignRequest(private_key, stack.program.id, function_name,
                                       inputs, input_types)
                call_stack == [mode |-> "Authorize", requests |-> <<request>>,
                               private_key |-> private_key,
                               authorization |-> NewAuthorization(<<request>>)]
            IN IF ~sign_ok
               THEN out(FALSE, signed, None)
               ELSE IF ~InputCountMatches(inputs, input_types)
               THEN out(FALSE, signed \o <<"input_types">>, None)
               ELSE IF ~ExecuteFunction(stack, call_stack, execute_ok).ok
               THEN out(FALSE, signed \o <<"input_types", "execute_function">>, None)
               ELSE out(TRUE, signed \o <<"input_types", "execute_function">>,
                        NewAuthorization(<<request>>))

\* What Stack::authorize returns on `stack`, with the steps it reached;
\* `sign_ok` and `execute_ok` are whether Request::sign and execute_function
\* succeeded.
AuthorizeResult(stack, private_key, function_name, inputs, sign_ok, execute_ok) ==
    LET out(ok, steps, authorization) ==
            AuthorizeOut(stack, function_name, inputs, ok, steps, authorization)
    IN IF DOMAIN stack.program.functions = {}
       THEN out(FALSE, <<"functions">>, None)
       ELSE IF ~IsIdentifier(function_name)
       THEN out(FALSE, <<"functions", "function_name">>, None)
       ELSE IF ~HasFunction(stack, function_name)
       THEN out(FALSE, <<"functions", "function_name", "get_function">>, None)
       ELSE LET input_types == stack.program.functions[function_name].input_types
                checked == <<"functions", "function_name", "get_function", "input_types">>
                request == SignRequest(private_key, stack.program.id, function_name,
                                       inputs, input_types)
                call_stack == [mode |-> "Authorize", requests |-> <<request>>,
                               private_key |-> private_key,
                               authorization |-> NewAuthorization(<<request>>)]
            IN IF ~InputCountMatches(inputs, input_types)
               THEN out(FALSE, checked, None)
               ELSE IF ~sign_ok
               THEN out(FALSE, checked \o <<"Request::sign">>, None)
               ELSE IF ~ExecuteFunction(stack, call_stack, execute_ok).ok
               THEN out(FALSE, checked \o <<"Request::sign", "execute_function">>, None)
               ELSE out(TRUE, checked \o <<"Request::sign", "execute_function">>,
                        NewAuthorization(<<request>>))

\* An authorize that drops the verifying keys of the stack once it has signed
\* the request.
AuthorizeKeepsRequest(stack, private_key, function_name, inputs, sign_ok, execute_ok) ==
    LET result == AuthorizeResult(stack, private_key, function_name, inputs,
                                  sign_ok, execute_ok)
    IN /\ process_out' = result
       /\ stacks' = IF "Request::sign" \in {result.steps[i] : i \in DOMAIN result.steps}
                    THEN [stacks EXCEPT ![stack.program.id] =
                             [stack EXCEPT !.verifying_keys = <<>>]]
                    ELSE stacks

\* Stack::authorize on `stack`, which it borrows immutably: the call returns
\* its result and leaves the stacks of the process as they are.
Authorize(stack, private_key, function_name, inputs, sign_ok, execute_ok) ==
    /\ process_out' = AuthorizeResult(stack, private_key, function_name, inputs,
                                      sign_ok, execute_ok)
    /\ UNCHANGED stacks

DoAuthorize ==
    /\ \E program_id \in DOMAIN stacks, function_name \in CallNames,
          inputs \in SeqUpTo({"1field"}, MaxArity + 1),
          sign_ok \in BOOLEAN, execute_ok \in BOOLEAN :
              Authorize(stacks[program_id], "sk", function_name, inputs, sign_ok, execute_ok)
    /\ UNCHANGED <<inclusionVars, pvi_out, finalizeVars, codecVars, circuitVars>>

(***************************************************************************)
(* Finalize commands: Command::finalize                                    *)
(***************************************************************************)
\* The largest value of a register or of a mapping entry.
MaxValue == 1

\* The values registers and mapping entries hold.
Values == 0 .. MaxValue

\* The registers r0, r1, r2 of a finalize scope, by index.
Registers == {0, 1, 2}

\* The mapping names commands use; the store holds the first.
MappingNames == {"object", "other"}

StoredMappings == {"object"}

\* The opcodes of the instructions.
Opcodes == {"add"}

\* The four variants of Command, with registers for operands.
InstructionCommands ==
    [variant : {"Instruction"}, opcode : Opcodes, operands : Registers \X Registers,
     destination : {2}]

GetCommands ==
    [variant : {"Get"}, mapping : MappingNames, key : Registers, destination : {2}]

GetOrUseCommands ==
    [variant : {"GetOrUse"}, mapping : MappingNames, key : Registers,
     default : Registers, destination : {2}]

SetCommands ==
    [variant : {"Set"}, mapping : MappingNames, key : Registers, value : Registers]

Commands == InstructionCommands \cup GetCommands \cup GetOrUseCommands \cup SetCommands

\* What the finalize of a variant returns: whether it succeeded, the registers
\* and the store after it, and the value of a success.
FinalizeOk(new_store, new_registers, value) ==
    [ok |-> TRUE, store |-> new_store, registers |-> new_registers, value |-> value]

\* A failed finalize: an error, with the store and the registers untouched.
FinalizeErr(old_store, old_registers) ==
    [ok |-> FALSE, store |-> old_store, registers |-> old_registers, value |-> None]

\* The evaluation of an opcode on two values.
Evaluate(opcode, a, b) == (a + b) % (MaxValue + 1)

\* Instruction::finalize: loads the operands, evaluates, stores the result
\* into the destination register; no storage is involved.
InstructionFinalize(instruction, old_store, old_registers) ==
    IF ~({instruction.operands[1], instruction.operands[2]} \subseteq DOMAIN old_registers)
    THEN FinalizeErr(old_store, old_registers)
    ELSE FinalizeOk(old_store,
                    MapInsert(old_registers, instruction.destination,
                              Evaluate(instruction.opcode,
                                       old_registers[instruction.operands[1]],
                                       old_registers[instruction.operands[2]])),
                    None)

\* Get::finalize: reads mapping[key] into the destination register; fails
\* when the mapping or the key is absent.
GetFinalize(get, old_store, old_registers) ==
    IF get.mapping \notin DOMAIN old_store \/ get.key \notin DOMAIN old_registers
    THEN FinalizeErr(old_store, old_registers)
    ELSE LET key == old_registers[get.key]
         IN IF key \notin DOMAIN old_store[get.mapping]
            THEN FinalizeErr(old_store, old_registers)
            ELSE FinalizeOk(old_store,
                            MapInsert(old_registers, get.destination,
                                      old_store[get.mapping][key]),
                            None)

\* GetOrUse::finalize: reads mapping[key] into the destination register, or
\* the default when the key is absent; fails when the mapping is absent.
GetOrUseFinalize(get_or_use, old_store, old_registers) ==
    IF \/ get_or_use.mapping \notin DOMAIN old_store
       \/ ~({get_or_use.key, get_or_use.default} \subseteq DOMAIN old_registers)
    THEN FinalizeErr(old_store, old_registers)
    ELSE LET key == old_registers[get_or_use.key]
             entries == old_store[get_or_use.mapping]
         IN FinalizeOk(old_store,
                       MapInsert(old_registers, get_or_use.destination,
                                 IF key \in DOMAIN entries
                                 THEN entries[key]
                                 ELSE old_registers[get_or_use.default]),
                       None)

\* The FinalizeOperation of a write of `value` at `key` of `mapping`.
FinalizeOperation(mapping, key, value) ==
    [mapping |-> mapping, key |-> key, value |-> value]

\* Set::finalize: writes the value to mapping[key] and returns the finalize
\* operation of the write; fails when the mapping is absent.
SetFinalize(set, old_store, old_registers) ==
    IF \/ set.mapping \notin DOMAIN old_store
       \/ ~({set.key, set.value} \subseteq DOMAIN old_registers)
    THEN FinalizeErr(old_store, old_registers)
    ELSE LET key == old_registers[set.key]
             value == old_registers[set.value]
         IN FinalizeOk([old_store EXCEPT ![set.mapping] = MapInsert(@, key, value)],
                       old_registers,
                       FinalizeOperation(set.mapping, key, value))

\* Result::map(|_| None): a success carries no finalize operation.
MapToNone(result) == IF result.ok THEN [result EXCEPT !.value = None] ELSE result

\* Result::map(Some): a success carries the finalize operation it returned.
MapToSome(result) == result

\* A dispatch whose set returns its operation without writing the store.
CommandFinalizeSetUnwritten(command, old_store, old_registers) ==
    IF command.variant = "Instruction"
    THEN MapToNone(InstructionFinalize(command, old_store, old_registers))
    ELSE IF command.variant = "Get"
    THEN MapToNone(GetFinalize(command, old_store, old_registers))
    ELSE IF command.variant = "GetOrUse"
    THEN MapToNone(GetOrUseFinalize(command, old_store, old_registers))
    ELSE MapToSome([SetFinalize(command, old_store, old_registers)
                       EXCEPT !.store = old_store])

\* A dispatch that turns the error of a get into a success without operation.
CommandFinalizeGetSucceeds(command, old_store, old_registers) ==
    IF command.variant = "Instruction"
    THEN MapToNone(InstructionFinalize(command, old_store, old_registers))
    ELSE IF command.variant = "Get"
    THEN [GetFinalize(command, old_store, old_registers) EXCEPT !.ok = TRUE]
    ELSE IF command.variant = "GetOrUse"
    THEN MapToNone(GetOrUseFinalize(command, old_store, old_registers))
    ELSE MapToSome(SetFinalize(command, old_store, old_registers))

\* A dispatch that finalizes a get.or_use as a get.
CommandFinalizeGetOrUseAsGet(command, old_store, old_registers) ==
    IF command.variant = "Instruction"
    THEN MapToNone(InstructionFinalize(command, old_store, old_registers))
    ELSE IF command.variant \in {"Get", "GetOrUse"}
    THEN MapToNone(GetFinalize(command, old_store, old_registers))
    ELSE MapToSome(SetFinalize(command, old_store, old_registers))

\* A dispatch that also returns a finalize operation for a get.or_use.
CommandFinalizeGetOrUseSome(command, old_store, old_registers) ==
    IF command.variant = "Instruction"
    THEN MapToNone(InstructionFinalize(command, old_store, old_registers))
    ELSE IF command.variant = "Get"
    THEN MapToNone(GetFinalize(command, old_store, old_registers))
    ELSE IF command.variant = "GetOrUse"
    THEN LET result == GetOrUseFinalize(command, old_store, old_registers)
         IN IF result.ok
            THEN [result EXCEPT !.value =
                     FinalizeOperation(command.mapping, old_registers[command.key],
                                       result.registers[command.destination])]
            ELSE result
    ELSE MapToSome(SetFinalize(command, old_store, old_registers))

\* Command::finalize: the dispatch on the variant; the result is
\* [ok, store, registers, value] with value the Option<FinalizeOperation>.
CommandFinalize(command, old_store, old_registers) ==
    IF command.variant = "Instruction"
    THEN MapToNone(InstructionFinalize(command, old_store, old_registers))
    ELSE IF command.variant = "Get"
    THEN MapToNone(GetFinalize(command, old_store, old_registers))
    ELSE IF command.variant = "GetOrUse"
    THEN MapToNone(GetOrUseFinalize(command, old_store, old_registers))
    ELSE MapToSome(SetFinalize(command, old_store, old_registers))

\* The store at genesis of the program: its mappings, without entries.
InitialStore == [mapping \in StoredMappings |-> <<>>]

\* A finalize scope starts: the inputs of finalize are loaded into r0 and r1.
StartFinalize ==
    /\ \E r0 \in Values, r1 \in Values :
          registers' = [register \in {0, 1} |-> IF register = 0 THEN r0 ELSE r1]
    /\ finalize_out' = None
    /\ UNCHANGED <<store, inclusionVars, pvi_out, processVars, codecVars, circuitVars>>

\* One command of the finalize scope is finalized.
DoFinalize ==
    /\ registers # <<>>
    /\ \E command \in Commands :
          LET result == CommandFinalize(command, store, registers)
          IN /\ store' = result.store
             /\ registers' = result.registers
             /\ finalize_out' = [command |-> command, ok |-> result.ok,
                                 operation |-> result.value]
    /\ UNCHANGED <<inclusionVars, pvi_out, processVars, codecVars, circuitVars>>

(***************************************************************************)
(* The byte form of a command: Command::read_le and Command::write_le      *)
(***************************************************************************)
\* The commands of the tests of the module.
TestCommands ==
    { [variant |-> "Instruction", opcode |-> "add", operands |-> <<0, 1>>, destination |-> 2],
      [variant |-> "Get", mapping |-> "object", key |-> 0, destination |-> 1],
      [variant |-> "GetOrUse", mapping |-> "object", key |-> 0, default |-> 1,
       destination |-> 2],
      [variant |-> "Set", mapping |-> "object", key |-> 1, value |-> 0] }

\* The commands that are written, read, printed and parsed.
CodecCommands == Commands \cup TestCommands

\* The bytes of a mapping name, of an opcode and of a register.
MappingByte(name) == IF name = "object" THEN 0 ELSE 1

OpcodeByte(opcode) == 0

RegisterByte(register) == register

\* Whether a byte stands for a name, an opcode, a register, and for which.
IsMappingByte(byte) == \E name \in MappingNames : MappingByte(name) = byte

MappingOfByte(byte) == CHOOSE name \in MappingNames : MappingByte(name) = byte

IsOpcodeByte(byte) == \E opcode \in Opcodes : OpcodeByte(opcode) = byte

OpcodeOfByte(byte) == CHOOSE opcode \in Opcodes : OpcodeByte(opcode) = byte

IsRegisterByte(byte) == \E register \in Registers : RegisterByte(register) = byte

RegisterOfByte(byte) == CHOOSE register \in Registers : RegisterByte(register) = byte

\* The result of a read: an error, or the object that was read.
ReadErr == [ok |-> FALSE, command |-> None]

ReadOk(command) == [ok |-> TRUE, command |-> command]

\* The encodings of the variants, which follow the variant byte.
InstructionWriteLe(instruction) ==
    <<OpcodeByte(instruction.opcode), RegisterByte(instruction.operands[1]),
      RegisterByte(instruction.operands[2]), RegisterByte(instruction.destination)>>

GetWriteLe(get) ==
    <<MappingByte(get.mapping), RegisterByte(get.key), RegisterByte(get.destination)>>

GetOrUseWriteLe(get_or_use) ==
    <<MappingByte(get_or_use.mapping), RegisterByte(get_or_use.key),
      RegisterByte(get_or_use.default), RegisterByte(get_or_use.destination)>>

SetWriteLe(set) ==
    <<MappingByte(set.mapping), RegisterByte(set.key), RegisterByte(set.value)>>

\* The decodings of the variants, from the bytes that follow the variant byte;
\* a read fails when the bytes run out or stand for nothing.
InstructionReadLe(bytes) ==
    IF Len(bytes) < 4 THEN ReadErr
    ELSE LET opcode == OpcodeOfByte(bytes[1])
             first == RegisterOfByte(bytes[2])
             second == RegisterOfByte(bytes[3])
             destination == RegisterOfByte(bytes[4])
         IN IF ~(IsOpcodeByte(bytes[1]) /\ \A i \in 2 .. 4 : IsRegisterByte(bytes[i])) THEN ReadErr
            ELSE ReadOk([variant |-> "Instruction", opcode |-> opcode,
                         operands |-> <<first, second>>, destination |-> destination])

GetReadLe(bytes) ==
    IF Len(bytes) < 3 THEN ReadErr
    ELSE LET mapping == MappingOfByte(bytes[1])
             key == RegisterOfByte(bytes[2])
             destination == RegisterOfByte(bytes[3])
         IN IF ~(IsMappingByte(bytes[1]) /\ \A i \in 2 .. 3 : IsRegisterByte(bytes[i])) THEN ReadErr
            ELSE ReadOk([variant |-> "Get", mapping |-> mapping, key |-> key,
                         destination |-> destination])

GetOrUseReadLe(bytes) ==
    IF Len(bytes) < 4 THEN ReadErr
    ELSE LET mapping == MappingOfByte(bytes[1])
             key == RegisterOfByte(bytes[2])
             default == RegisterOfByte(bytes[3])
             destination == RegisterOfByte(bytes[4])
         IN IF ~(IsMappingByte(bytes[1]) /\ \A i \in 2 .. 4 : IsRegisterByte(bytes[i])) THEN ReadErr
            ELSE ReadOk([variant |-> "GetOrUse", mapping |-> mapping, key |-> key,
                         default |-> default, destination |-> destination])

SetReadLe(bytes) ==
    IF Len(bytes) < 3 THEN ReadErr
    ELSE LET mapping == MappingOfByte(bytes[1])
             key == RegisterOfByte(bytes[2])
             value == RegisterOfByte(bytes[3])
         IN IF ~(IsMappingByte(bytes[1]) /\ \A i \in 2 .. 3 : IsRegisterByte(bytes[i])) THEN ReadErr
            ELSE ReadOk([variant |-> "Set", mapping |-> mapping, key |-> key,
                         value |-> value])

\* A read that takes the variants 1 and 2 for each other.
CommandReadLeSwapped(bytes) ==
    IF bytes = <<>> THEN ReadErr
    ELSE LET variant == bytes[1]
             rest == Tail(bytes)
         IN IF variant = 0 THEN InstructionReadLe(rest)
            ELSE IF variant = 2 THEN GetReadLe(rest)
            ELSE IF variant = 1 THEN GetOrUseReadLe(rest)
            ELSE IF variant = 3 THEN SetReadLe(rest)
            ELSE ReadErr

\* Command::read_le: reads the variant byte, then the variant it names.
CommandReadLe(bytes) ==
    IF bytes = <<>> THEN ReadErr
    ELSE LET variant == bytes[1]
             rest == Tail(bytes)
         IN IF variant = 0 THEN InstructionReadLe(rest)
            ELSE IF variant = 1 THEN GetReadLe(rest)
            ELSE IF variant = 2 THEN GetOrUseReadLe(rest)
            ELSE IF variant = 3 THEN SetReadLe(rest)
            ELSE ReadErr

\* A write that gives a get.or_use the variant byte of a get.
CommandWriteLeGetByte(command) ==
    IF command.variant = "Instruction" THEN <<0>> \o InstructionWriteLe(command)
    ELSE IF command.variant = "Get" THEN <<1>> \o GetWriteLe(command)
    ELSE IF command.variant = "GetOrUse" THEN <<1>> \o GetOrUseWriteLe(command)
    ELSE <<3>> \o SetWriteLe(command)

\* Command::write_le: writes the variant byte, then the variant.
CommandWriteLe(command) ==
    IF command.variant = "Instruction" THEN <<0>> \o InstructionWriteLe(command)
    ELSE IF command.variant = "Get" THEN <<1>> \o GetWriteLe(command)
    ELSE IF command.variant = "GetOrUse" THEN <<2>> \o GetOrUseWriteLe(command)
    ELSE <<3>> \o SetWriteLe(command)

\* The bytes that follow the variant byte in the buffers handed to a read:
\* the encodings of the commands of the tests, whole and cut short.
ReadPayloads ==
    {<<>>} \cup UNION { {Tail(CommandWriteLe(command)), Tail(Tail(CommandWriteLe(command)))} :
                        command \in TestCommands }

\* A command is written to a buffer.
DoWriteLe ==
    /\ \E command \in CodecCommands :
          codec_out' = [op |-> "write_le", command |-> command,
                        bytes |-> CommandWriteLe(command)]
    /\ UNCHANGED <<text_out, inclusionVars, pvi_out, processVars, finalizeVars, circuitVars>>

\* A command is read from a buffer: the buffer that was written last, or one
\* of any variant byte.
DoReadLe ==
    /\ \/ /\ codec_out # None /\ codec_out.op = "write_le"
          /\ codec_out' = [op |-> "read_le", written |-> codec_out.command,
                           bytes |-> codec_out.bytes,
                           result |-> CommandReadLe(codec_out.bytes)]
       \/ \E variant \in 0 .. (U8 - 1), payload \in ReadPayloads :
             codec_out' = [op |-> "read_le", written |-> None,
                           bytes |-> <<variant>> \o payload,
                           result |-> CommandReadLe(<<variant>> \o payload)]
    /\ UNCHANGED <<text_out, inclusionVars, pvi_out, processVars, finalizeVars, circuitVars>>

(***************************************************************************)
(* The text form of a command: Command::parse, from_str and Display        *)
(***************************************************************************)
\* A text is a sequence of characters.  The keywords and names of the texts:
GetWord == <<"g", "e", "t">>

GetOrUseWord == <<"g", "e", "t", ".", "o", "r", "_", "u", "s", "e">>

SetWord == <<"s", "e", "t">>

IntoWord == <<"i", "n", "t", "o">>

OpcodeWord(opcode) == <<"a", "d", "d">>

MappingWord(name) == IF name = "object" THEN <<"o", "b", "j", "e", "c", "t">> ELSE <<"o", "t", "h", "e", "r">>

\* The decimal digits, and the characters an identifier is made of.
Digits == <<"0", "1", "2", "3", "4", "5", "6", "7", "8", "9">>

DigitChars == {Digits[i] : i \in DOMAIN Digits}

LetterChars == {"a", "b", "c", "d", "e", "f", "g", "h", "i", "j", "k", "l", "m", "n", "o", "p", "q", "r", "s", "t", "u", "v", "w", "x", "y", "z"}

IdentifierChars == LetterChars \cup DigitChars \cup {"_"}

\* The texts of the tests: four that parse, two that do not.
AddText == <<"a", "d", "d", " ", "r", "0", " ", "r", "1", " ", "i", "n", "t", "o", " ", "r", "2", ";">>

GetText == <<"g", "e", "t", " ", "o", "b", "j", "e", "c", "t", "[", "r", "0", "]", " ", "i", "n", "t", "o", " ", "r", "1", ";">>

GetOrUseText == <<"g", "e", "t", ".", "o", "r", "_", "u", "s", "e", " ", "o", "b", "j", "e", "c", "t", "[", "r", "0", "]", " ", "r", "1", " ", "i", "n", "t", "o", " ", "r", "2", ";">>

SetText == <<"s", "e", "t", " ", "r", "0", " ", "i", "n", "t", "o", " ", "o", "b", "j", "e", "c", "t", "[", "r", "1", "]", ";">>

DecrementText == <<"d", "e", "c", "r", "e", "m", "e", "n", "t", " ", "o", "b", "j", "e", "c", "t", "[", "r", "0", "]", " ", "b", "y", " ", "r", "1", ";">>

IncrementText == <<"i", "n", "c", "r", "e", "m", "e", "n", "t", " ", "o", "b", "j", "e", "c", "t", "[", "r", "0", "]", " ", "b", "y", " ", "r", "1", ";">>

\* Display of a register, and of the four variants.
RegisterDisplay(register) == <<"r", Digits[register + 1]>>

InstructionDisplay(instruction) ==
    OpcodeWord(instruction.opcode) \o <<" ">> \o RegisterDisplay(instruction.operands[1])
        \o <<" ">> \o RegisterDisplay(instruction.operands[2]) \o <<" ">> \o IntoWord
        \o <<" ">> \o RegisterDisplay(instruction.destination) \o <<";">>

GetDisplay(get) ==
    GetWord \o <<" ">> \o MappingWord(get.mapping) \o <<"[">> \o RegisterDisplay(get.key)
        \o <<"]", " ">> \o IntoWord \o <<" ">> \o RegisterDisplay(get.destination) \o <<";">>

GetOrUseDisplay(get_or_use) ==
    GetOrUseWord \o <<" ">> \o MappingWord(get_or_use.mapping) \o <<"[">>
        \o RegisterDisplay(get_or_use.key) \o <<"]", " ">>
        \o RegisterDisplay(get_or_use.default) \o <<" ">> \o IntoWord \o <<" ">>
        \o RegisterDisplay(get_or_use.destination) \o <<";">>

SetDisplay(set) ==
    SetWord \o <<" ">> \o RegisterDisplay(set.value) \o <<" ">> \o IntoWord \o <<" ">>
        \o MappingWord(set.mapping) \o <<"[">> \o RegisterDisplay(set.key) \o <<"]", ";">>

\* Display for Command: the Display of the variant.
CommandDisplay(command) ==
    IF command.variant = "Instruction" THEN InstructionDisplay(command)
    ELSE IF command.variant = "Get" THEN GetDisplay(command)
    ELSE IF command.variant = "GetOrUse" THEN GetOrUseDisplay(command)
    ELSE SetDisplay(command)

\* The result of a parser: an error, or the remainder and the parsed value.
ParseErr == [ok |-> FALSE, rest |-> <<>>, value |-> None]

ParseOk(rest, value) == [ok |-> TRUE, rest |-> rest, value |-> value]

\* The text without its first n characters.
Drop(text, n) == SubSeq(text, n + 1, Len(text))

\* The number of leading characters of the text that are in the set.
LeadingIn(text, chars) ==
    CHOOSE n \in 0 .. Len(text) :
        /\ \A i \in 1 .. n : text[i] \in chars
        /\ n = Len(text) \/ text[n + 1] \notin chars

\* tag(word): the text starts with the word.
Tag(word, text) ==
    IF Len(text) >= Len(word) /\ SubSeq(text, 1, Len(word)) = word
    THEN ParseOk(Drop(text, Len(word)), word)
    ELSE ParseErr

\* Sanitizer::parse_whitespaces: the text after its leading whitespace.
Whitespaces(text) == Drop(text, LeadingIn(text, {" "}))

\* Identifier::parse, for the mapping names of the commands: a letter followed
\* by letters, digits and underscores.
IdentifierParse(text) ==
    \* n is bound to the value of LeadingIn, computed once.
    CHOOSE result \in
        { IF n > 0 /\ text[1] \in LetterChars
               /\ \E name \in MappingNames : MappingWord(name) = SubSeq(text, 1, n)
          THEN ParseOk(Drop(text, n),
                       CHOOSE name \in MappingNames : MappingWord(name) = SubSeq(text, 1, n))
          ELSE ParseErr : n \in {LeadingIn(text, IdentifierChars)} } : TRUE

\* The number that a sequence of digits stands for.
RECURSIVE Decimal(_)
Decimal(digits) ==
    IF digits = <<>> THEN 0
    ELSE 10 * Decimal(SubSeq(digits, 1, Len(digits) - 1))
         + (CHOOSE d \in 0 .. 9 : Digits[d + 1] = digits[Len(digits)])

\* Register::parse: "r" followed by the digits of the index.
RegisterParse(text) ==
    IF text # <<>> /\ text[1] = "r"
    THEN CHOOSE result \in
             { IF n > 0
               THEN ParseOk(Drop(text, n + 1), Decimal(SubSeq(text, 2, n + 1)))
               ELSE ParseErr : n \in {LeadingIn(Tail(text), DigitChars)} } : TRUE
    ELSE ParseErr

\* Opcode::parse: one of the opcodes.
OpcodeParse(text) ==
    IF \E opcode \in Opcodes : Tag(OpcodeWord(opcode), text).ok
    THEN CHOOSE result \in
             { ParseOk(Drop(text, Len(OpcodeWord(opcode))), opcode) :
                 opcode \in {o \in Opcodes : Tag(OpcodeWord(o), text).ok} } : TRUE
    ELSE ParseErr

\* The parsers of the variants run their items in order, each on the
\* remainder of the one before, and stop at the first that fails.  An item is
\* a tag, an identifier, a register or an opcode, after whitespace if `space`.
Item(kind, word, space) == [kind |-> kind, word |-> word, space |-> space]

\* One item on the state [ok, rest, values] of a run.
RunItem(item, state) ==
    CHOOSE next \in
        { IF result.ok
          THEN [ok |-> TRUE, rest |-> result.rest,
                values |-> IF item.kind = "tag" THEN state.values
                           ELSE Append(state.values, result.value)]
          ELSE [ok |-> FALSE, rest |-> <<>>, values |-> <<>>] :
            result \in { CASE item.kind = "tag" -> Tag(item.word, text)
                           [] item.kind = "identifier" -> IdentifierParse(text)
                           [] item.kind = "register" -> RegisterParse(text)
                           [] item.kind = "opcode" -> OpcodeParse(text) :
                         text \in {IF item.space THEN Whitespaces(state.rest)
                                   ELSE state.rest} } } : TRUE

\* The items from the k-th on.
RECURSIVE RunItems(_, _, _)
RunItems(items, k, state) ==
    CHOOSE end \in
        { IF k > Len(items) \/ ~now.ok THEN now
          ELSE RunItems(items, k + 1, RunItem(items[k], now)) : now \in {state} } : TRUE

\* map(parser, build): the parsed values of a run, built into the variant.
ParseAs(items, text, Build(_)) ==
    CHOOSE result \in
        { IF end.ok THEN ParseOk(end.rest, Build(end.values)) ELSE ParseErr :
            end \in {RunItems(items, 1, [ok |-> TRUE, rest |-> text, values |-> <<>>])} } : TRUE

\* Instruction::parse: "<opcode> <operand> <operand> into <destination>;"
InstructionParse(text) ==
    ParseAs(<<Item("opcode", <<>>, TRUE), Item("register", <<>>, TRUE),
              Item("register", <<>>, TRUE), Item("tag", IntoWord, TRUE),
              Item("register", <<>>, TRUE), Item("tag", <<";">>, TRUE)>>,
            text,
            LAMBDA values :
                [variant |-> "Instruction", opcode |-> values[1],
                 operands |-> <<values[2], values[3]>>, destination |-> values[4]])

\* Get::parse: "get <mapping>[<key>] into <destination>;"
GetParse(text) ==
    ParseAs(<<Item("tag", GetWord, TRUE), Item("identifier", <<>>, TRUE),
              Item("tag", <<"[">>, FALSE), Item("register", <<>>, TRUE),
              Item("tag", <<"]">>, TRUE), Item("tag", IntoWord, TRUE),
              Item("register", <<>>, TRUE), Item("tag", <<";">>, TRUE)>>,
            text,
            LAMBDA values :
                [variant |-> "Get", mapping |-> values[1], key |-> values[2],
                 destination |-> values[3]])

\* GetOrUse::parse: "get.or_use <mapping>[<key>] <default> into <destination>;"
GetOrUseParse(text) ==
    ParseAs(<<Item("tag", GetOrUseWord, TRUE), Item("identifier", <<>>, TRUE),
              Item("tag", <<"[">>, FALSE), Item("register", <<>>, TRUE),
              Item("tag", <<"]">>, TRUE), Item("register", <<>>, TRUE),
              Item("tag", IntoWord, TRUE), Item("register", <<>>, TRUE),
              Item("tag", <<";">>, TRUE)>>,
            text,
            LAMBDA values :
                [variant |-> "GetOrUse", mapping |-> values[1], key |-> values[2],
                 default |-> values[3], destination |-> values[4]])

\* Set::parse: "set <value> into <mapping>[<key>];"
SetParse(text) ==
    ParseAs(<<Item("tag", SetWord, TRUE), Item("register", <<>>, TRUE),
              Item("tag", IntoWord, TRUE), Item("identifier", <<>>, TRUE),
              Item("tag", <<"[">>, FALSE), Item("register", <<>>, TRUE),
              Item("tag", <<"]">>, TRUE), Item("tag", <<";">>, TRUE)>>,
            text,
            LAMBDA values :
                [variant |-> "Set", mapping |-> values[2], key |-> values[3],
                 value |-> values[1]])

\* alt((first, second)): the result of the first parser unless it failed.
Alt(first, second) ==
    CHOOSE result \in {IF tried.ok THEN tried ELSE second : tried \in {first}} : TRUE

\* A parse without the alternative of a set.
CommandParseWithoutSet(text) ==
    Alt(GetOrUseParse(text), Alt(GetParse(text), InstructionParse(text)))

\* Command::parse: the first of the alternatives, in their order, that
\* parses the text.
CommandParse(text) ==
    Alt(GetOrUseParse(text),
        Alt(GetParse(text), Alt(SetParse(text), InstructionParse(text))))

\* A from_str that returns the parsed command whatever remains.
CommandFromStrAnyRemainder(text) ==
    CHOOSE result \in
        { IF parsed.ok
          THEN [ok |-> TRUE, command |-> parsed.value, remainder |-> parsed.rest]
          ELSE [ok |-> FALSE, command |-> None, remainder |-> None] :
            parsed \in {CommandParse(text)} } : TRUE

\* Command::from_str: the parsed command, unless a remainder is left; the
\* result records the remainder of a parse that succeeded.
CommandFromStr(text) ==
    CHOOSE result \in
        { IF parsed.ok
          THEN IF parsed.rest = <<>>
               THEN [ok |-> TRUE, command |-> parsed.value, remainder |-> parsed.rest]
               ELSE [ok |-> FALSE, command |-> None, remainder |-> parsed.rest]
          ELSE [ok |-> FALSE, command |-> None, remainder |-> None] :
            parsed \in {CommandParse(text)} } : TRUE

\* The characters that follow a command in the texts handed to from_str.
Trailers == {<<>>, <<" ">>, <<";">>, <<"x">>, GetText}

\* The texts of the tests.
TestTexts == {AddText, GetText, GetOrUseText, SetText, DecrementText, IncrementText}

\* A command is printed.
DoToString ==
    /\ \E command \in CodecCommands :
          text_out' = [op |-> "to_string", command |-> command,
                       text |-> CommandDisplay(command)]
    /\ UNCHANGED <<codec_out, inclusionVars, pvi_out, processVars, finalizeVars, circuitVars>>

\* from_str on `base` followed by `trailer`, where `origin` is the command
\* that `base` was printed from, if any; when from_str succeeds, the command
\* is printed.
FromStr(base, trailer, origin) ==
    \E result \in {CommandFromStr(base \o trailer)} :
        text_out' = [op |-> "from_str", base |-> base, trailer |-> trailer,
                     origin |-> origin, result |-> result,
                     printed |-> IF result.ok THEN CommandDisplay(result.command) ELSE None]

\* A text is parsed by from_str: the text that was printed last or a text of
\* the tests, followed by any trailer.
DoFromStr ==
    /\ \E trailer \in Trailers :
          \/ \E base \in TestTexts : FromStr(base, trailer, None)
          \/ /\ text_out # None /\ text_out.op = "to_string"
             /\ FromStr(text_out.text, trailer, text_out.command)
    /\ UNCHANGED <<codec_out, inclusionVars, pvi_out, processVars, finalizeVars, circuitVars>>

(***************************************************************************)
(* The state-path circuit: InclusionAssignment::to_circuit_assignment      *)
(***************************************************************************)
\* The most gates that code other than the builder leaves in the environment.
MaxGates == 2

\* A::count() of a clean environment: no constants, the public variable one,
\* no private variables, no constraints, no nonzeros.
CleanCount == <<0, 1, 0, 0, <<0, 0, 0>>>>

\* The circuit environment A: its counts, the public values after the
\* variable one, and whether all constraints so far are satisfied.
CleanEnvironment == [count |-> CleanCount, public |-> <<>>, satisfied |-> TRUE]

\* A::reset()
CircuitReset(environment) == CleanEnvironment

\* Inject a value in a mode: one more constant, public or private variable.
CircuitInject(environment, mode, value) ==
    LET count == environment.count
    IN [environment EXCEPT
           !.count = CASE mode = "Constant" -> [count EXCEPT ![1] = @ + 1]
                       [] mode = "Public" -> [count EXCEPT ![2] = @ + 1]
                       [] mode = "Private" -> [count EXCEPT ![3] = @ + 1],
           !.public = IF mode = "Public" THEN Append(@, value) ELSE @]

\* A::assert / A::assert_eq: one more constraint, satisfied or not.
CircuitEnforce(environment, holds) ==
    [environment EXCEPT
        !.count = [@ EXCEPT ![4] = @ + 1,
                            ![5] = <<@[1] + 1, @[2] + 1, @[3] + 1>>],
        !.satisfied = @ /\ holds]

\* A::eject_assignment_and_reset(): the assignment of the environment.
CircuitEject(environment) ==
    [public |-> <<FieldOne>> \o environment.public,
     num_private |-> environment.count[3],
     num_constraints |-> environment.count[4],
     satisfied |-> environment.satisfied]

\* The gates in the environment beyond those of a clean one.
GatesOf(environment) ==
    environment.count[1] + (environment.count[2] - 1) + environment.count[3]
        + environment.count[4]

\* The state paths: the ID of the transition leaf they start at, the global
\* state root they carry, and whether they verify from leaf to root.
StatePaths ==
    [transition_leaf_id : Commitments, global_state_root : GlobalStateRoots \ {FieldZero},
     verifies : BOOLEAN]

\* InclusionAssignment::new
InclusionAssignments ==
    [state_path : StatePaths, commitment : Commitments, gamma : Gammas,
     serial_number : SerialNumbers, local_state_root : {"tx"}, is_global : BOOLEAN]

\* What a to_circuit_assignment call came to: the counts it found on entry,
\* and a panic or the returned assignment.
CircuitOut(assignment, entry_count, result, circuit_assignment) ==
    [input |-> assignment, entry_count |-> entry_count, result |-> result,
     assignment |-> circuit_assignment]

\* A builder that does not constrain the serial number.
BuildStatePathCircuitUnbound(assignment, environment) ==
    LET path == assignment.state_path
        e1 == CircuitInject(CircuitInject(environment, "Public", path.global_state_root),
                            "Private", path)
        e2 == CircuitInject(e1, "Private", assignment.commitment)
        e3 == CircuitInject(e2, "Private", assignment.gamma)
        e4 == CircuitInject(e3, "Public", assignment.local_state_root)
        e5 == CircuitInject(e4, "Private", assignment.is_global)
        e6 == CircuitInject(e5, "Public", assignment.serial_number)
        e8 == CircuitEnforce(e6, path.transition_leaf_id = assignment.commitment)
    IN CircuitEnforce(e8, path.verifies)

\* The environment after the injections and the constraints of the builder.
BuildStatePathCircuit(assignment, environment) ==
    LET path == assignment.state_path
        e1 == CircuitInject(CircuitInject(environment, "Public", path.global_state_root),
                            "Private", path)
        e2 == CircuitInject(e1, "Private", assignment.commitment)
        e3 == CircuitInject(e2, "Private", assignment.gamma)
        e4 == CircuitInject(e3, "Public", assignment.local_state_root)
        e5 == CircuitInject(e4, "Private", assignment.is_global)
        e6 == CircuitInject(e5, "Public", assignment.serial_number)
        candidate_serial_number ==
            SerialNumberFromGamma(assignment.gamma, assignment.commitment)
        e7 == CircuitEnforce(e6, candidate_serial_number = assignment.serial_number)
        e8 == CircuitEnforce(e7, path.transition_leaf_id = assignment.commitment)
    IN CircuitEnforce(e8, path.verifies)

\* A builder that ejects the assignment and leaves the circuit in the environment.
ToCircuitAssignmentKeepsCircuit(assignment) ==
    IF circuit_env.count # CleanCount
    THEN /\ circuit_out' = CircuitOut(assignment, circuit_env.count, "panic", None)
         /\ UNCHANGED circuit_env
    ELSE /\ circuit_out' = CircuitOut(assignment, circuit_env.count, "ok",
                                      CircuitEject(BuildStatePathCircuit(
                                          assignment, CircuitReset(circuit_env))))
         /\ circuit_env' = BuildStatePathCircuit(assignment, CircuitReset(circuit_env))

\* A builder that resets the environment whatever it finds in it.
ToCircuitAssignmentResetsFirst(assignment) ==
    /\ circuit_out' = CircuitOut(assignment, circuit_env.count, "ok",
                                 CircuitEject(BuildStatePathCircuit(
                                     assignment, CircuitReset(circuit_env))))
    /\ circuit_env' = CleanEnvironment

\* InclusionAssignment::to_circuit_assignment: panics on the assertion when the
\* environment is not clean, which leaves the environment as it is; otherwise
\* resets it, builds the circuit, ejects the assignment and resets again.
ToCircuitAssignment(assignment) ==
    IF circuit_env.count # CleanCount
    THEN /\ circuit_out' = CircuitOut(assignment, circuit_env.count, "panic", None)
         /\ UNCHANGED circuit_env
    ELSE /\ circuit_out' = CircuitOut(assignment, circuit_env.count, "ok",
                                      CircuitEject(BuildStatePathCircuit(
                                          assignment, CircuitReset(circuit_env))))
         /\ circuit_env' = CleanEnvironment

DoToCircuitAssignment ==
    /\ \E assignment \in InclusionAssignments : ToCircuitAssignment(assignment)
    /\ UNCHANGED <<inclusionVars, pvi_out, processVars, finalizeVars, codecVars>>

\* Other code that builds a circuit in the environment adds a gate to it.
UseCircuit ==
    /\ GatesOf(circuit_env) < MaxGates
    /\ \/ \E mode \in {"Constant", "Public", "Private"} :
             circuit_env' = CircuitInject(circuit_env, mode, FieldOne)
       \/ circuit_env' = CircuitEnforce(circuit_env, TRUE)
    /\ UNCHANGED <<circuit_out, inclusionVars, pvi_out, processVars, finalizeVars, codecVars>>

\* Other code resets the environment.
ResetCircuit ==
    /\ circuit_env' = CircuitReset(circuit_env)
    /\ UNCHANGED <<circuit_out, inclusionVars, pvi_out, processVars, finalizeVars, codecVars>>

Init ==
    /\ input_tasks = <<>>
    /\ output_commitments = <<>>
    /\ transitions = <<>>
    /\ insert_result = None
    /\ pvi_out = None
    /\ stacks = <<>>
    /\ process_out = None
    /\ store = InitialStore
    /\ registers = <<>>
    /\ finalize_out = None
    /\ codec_out = None
    /\ text_out = None
    /\ circuit_env = CleanEnvironment
    /\ circuit_out = None

Next == InsertMatching \/ InsertMismatched

Spec == Init /\ [][Next]_vars

NextVerifier == InsertMatching \/ Prepare

SpecVerifier == Init /\ [][NextVerifier]_vars

NextProcess == DoDeploy \/ DoVerifyDeployment \/ DoLoadDeployment \/ DoAuthorize

SpecProcess == Init /\ [][NextProcess]_vars

NextFinalize == StartFinalize \/ DoFinalize

SpecFinalize == Init /\ [][NextFinalize]_vars

NextCodec == DoWriteLe \/ DoReadLe

SpecCodec == Init /\ [][NextCodec]_vars

NextText == DoToString \/ DoFromStr

SpecText == Init /\ [][NextText]_vars

NextCircuit == DoToCircuitAssignment \/ UseCircuit \/ ResetCircuit

SpecCircuit == Init /\ [][NextCircuit]_vars

(***************************************************************************)
(* Properties of the inclusion tracker.                                    *)
(***************************************************************************)
\* The commitments that are record-typed outputs of the transitions `ts`.
ProducedBy(ts) ==
    {c \in Commitments :
        \E i \in 1..Len(ts) : \E j \in 1..Len(ts[i].outputs) :
            ts[i].outputs[j].variant = "Record" /\ ts[i].outputs[j].id = c}

\* The tasks of the tracker, as a set of <<transition ID, position>> places.
TaskPlaces(tasks) == {<<tid, k>> : tid \in DOMAIN tasks, k \in 1..MaxWork} \cap
                     UNION {{<<tid, k>> : k \in 1..Len(tasks[tid])} : tid \in DOMAIN tasks}

\* C1: every task that an insert_transition call creates has is_local = TRUE
\* exactly when its commitment was a record-typed output of a transition
\* inserted strictly earlier (so FALSE when no inserted transition produced it).
C1_IsLocalIffProducedEarlier ==
    [][\A tid \in DOMAIN input_tasks' :
          \A k \in (Len(EntryOrDefault(input_tasks, tid)) + 1)..Len(input_tasks'[tid]) :
              input_tasks'[tid][k].is_local
                  = (input_tasks'[tid][k].commitment \in ProducedBy(transitions))]_vars

\* A task resolved as local and a task resolved as not local, after two inserts.
C1_Witness ==
    /\ Len(transitions) >= 2
    /\ \E p \in TaskPlaces(input_tasks) : input_tasks[p[1]][p[2]].is_local
    /\ \E p \in TaskPlaces(input_tasks) : ~input_tasks[p[1]][p[2]].is_local

\* C6: a call of insert_transition whose number of input IDs differs from the
\* number of inputs of the transition returns an error, whatever the tracker holds.
C6_MismatchFails ==
    (insert_result # None /\ insert_result.num_input_ids # insert_result.num_inputs)
        => ~insert_result.ok

\* 2 input IDs against 3 inputs were rejected by a tracker that holds tasks.
C6_Witness ==
    /\ insert_result = [num_input_ids |-> 2, num_inputs |-> 3, ok |-> FALSE]
    /\ TaskPlaces(input_tasks) # {}

(***************************************************************************)
(* Properties of prepare_verifier_inputs.                                  *)
(***************************************************************************)
\* All inputs of the transitions `ts`, in transition order then input order,
\* each with the 0-based index of its transition.
RECURSIVE AllInputs(_, _)
AllInputs(ts, k) ==
    IF k > Len(ts) THEN <<>>
    ELSE [i \in 1..Len(ts[k].inputs) |-> [input |-> ts[k].inputs[i], transition |-> k - 1]]
         \o AllInputs(ts, k + 1)

IsRecordEntry(e) == e.input.variant = "Record"

\* The record-typed inputs among them, in the same order.
RecordInputsOf(ts) == SelectSeq(AllInputs(ts, 1), IsRecordEntry)

\* The leaves of the transitions before the 0-based transition k.
LeavesBefore(ts, k) == [i \in 1..k |-> NewExecutionLeaf(i - 1, ts[i].id)]

\* C2: a successful prepare_verifier_inputs returns one 4-element vector
\* [1, global_state_root, local_state_root, serial_number] per record-typed
\* input and none for the other inputs, in transition order then input order.
C2_OneVectorPerRecordInput ==
    (pvi_out # None /\ pvi_out.ok) =>
        LET records == RecordInputsOf(pvi_out.transitions)
        IN /\ Len(pvi_out.inputs) = Len(records)
           /\ \A j \in 1..Len(records) :
                 /\ Len(pvi_out.inputs[j]) = 4
                 /\ pvi_out.inputs[j][1] = 1
                 /\ pvi_out.inputs[j][2] = pvi_out.global_state_root
                 /\ pvi_out.inputs[j][4] = records[j].input.id

\* Vectors were returned for a transaction that has record and other inputs in
\* more than one transition.
C2_Witness ==
    /\ pvi_out # None /\ pvi_out.ok
    /\ Len(pvi_out.inputs) >= 2
    /\ Len(pvi_out.inputs) < Len(AllInputs(pvi_out.transitions, 1))
    /\ \E j \in 1..Len(pvi_out.inputs) : pvi_out.inputs[j][3] # MerkleRoot(<<>>)

\* C3: the local state root of every vector of the k-th transition is the root
\* of the tree of the leaves of transitions 0..k-1, and the tree never gets the
\* leaf of the last transition.
C3_LocalRootOfEarlierTransitions ==
    pvi_out # None =>
        LET ts == pvi_out.transitions
            records == RecordInputsOf(ts)
        IN /\ pvi_out.ok =>
                 \A j \in 1..Len(records) :
                     pvi_out.inputs[j][3] = MerkleRoot(LeavesBefore(ts, records[j].transition))
           /\ pvi_out.transaction_tree =
                 LeavesBefore(ts, IF Len(ts) = 0 THEN 0 ELSE Len(ts) - 1)

\* Record inputs of the first and of a later transition were bound to
\* different roots.
C3_Witness ==
    /\ pvi_out # None /\ pvi_out.ok
    /\ Len(pvi_out.transitions) >= 2
    /\ \E j \in 1..Len(pvi_out.inputs) : pvi_out.inputs[j][3] = MerkleRoot(<<>>)
    /\ \E j \in 1..Len(pvi_out.inputs) : pvi_out.inputs[j][3] # MerkleRoot(<<>>)

C7_SecondLoadFails ==
    [][(process_out'.op = "load_deployment"
            /\ ContainsProgram(stacks, process_out'.program_id))
        => (~process_out'.ok /\ stacks' = stacks)]_vars

\* A load_deployment of a registered program ID failed when building the stack.
C7_Witness ==
    /\ process_out # None
    /\ process_out.op = "load_deployment" /\ ~process_out.ok
    /\ process_out.steps = <<"Stack::new">>
    /\ ContainsProgram(stacks, process_out.program_id)
    /\ stacks[process_out.program_id].program.well_formed

\* C8: verify_deployment of a program ID that the process already holds fails,
\* and it fails on the check for the existing program, before the stack is
\* built and before any certificate is checked.
C8_VerifyRejectsExisting ==
    [][(process_out'.op = "verify_deployment"
            /\ ContainsProgram(stacks, process_out'.program_id))
        => (~process_out'.ok /\ process_out'.steps = <<"contains_program">>)]_vars

\* A verify_deployment stopped at the check for the existing program.
C8_Witness ==
    /\ process_out # None
    /\ process_out.op = "verify_deployment" /\ ~process_out.ok
    /\ process_out.steps = <<"contains_program">>
    /\ ContainsProgram(stacks, process_out.program_id)

\* C9: verify_deployment leaves the registered programs and their verifying
\* keys as they were, whether it succeeds or fails.
C9_VerifyLeavesProcess ==
    [][process_out'.op = "verify_deployment" => stacks' = stacks]_vars

\* A verify_deployment succeeded on a process that holds another program.
C9_Witness ==
    /\ process_out # None
    /\ process_out.op = "verify_deployment" /\ process_out.ok
    /\ stacks # <<>>
    /\ ~ContainsProgram(stacks, process_out.program_id)

(***************************************************************************)
(* Properties of authorize.                                                *)
(***************************************************************************)
\* The program of the stack that the last authorize call was made on.
AuthorizedProgram == stacks[process_out.program_id].program

\* C10: authorize fails and returns no Authorization when the program has no
\* functions, when the named function is not in the program, and when the
\* number of inputs differs from the number of declared input types.
C10_AuthorizeRejects ==
    (process_out # None /\ process_out.op = "authorize") =>
        LET functions == AuthorizedProgram.functions
            name == process_out.function_name
        IN (\/ DOMAIN functions = {}
            \/ name \notin DOMAIN functions
            \/ process_out.num_inputs # Len(functions[name].input_types))
           => (~process_out.ok /\ process_out.authorization = None)

\* An authorize call with too few inputs for a declared function was rejected.
C10_Witness ==
    /\ process_out # None /\ process_out.op = "authorize" /\ ~process_out.ok
    /\ process_out.function_name \in DOMAIN AuthorizedProgram.functions
    /\ process_out.num_inputs
           < Len(AuthorizedProgram.functions[process_out.function_name].input_types)

\* The steps that the last call on the process reached, as a set.
StepsReached == {process_out.steps[i] : i \in DOMAIN process_out.steps}

\* C11: when authorize is called for a declared function with a number of
\* inputs that differs from the number of declared input types, it reaches
\* neither the signing of the request nor the execution of the function.
C11_CountCheckPrecedesSigning ==
    (process_out # None /\ process_out.op = "authorize") =>
        LET functions == AuthorizedProgram.functions
            name == process_out.function_name
        IN (/\ name \in DOMAIN functions
            /\ process_out.num_inputs # Len(functions[name].input_types))
           => (/\ "Request::sign" \notin StepsReached
               /\ "execute_function" \notin StepsReached
               /\ process_out.steps[Len(process_out.steps)] = "input_types")

\* An authorize call with too many inputs for a declared function stopped at
\* the comparison of the counts.
C11_Witness ==
    /\ process_out # None /\ process_out.op = "authorize"
    /\ process_out.function_name \in DOMAIN AuthorizedProgram.functions
    /\ process_out.num_inputs
           > Len(AuthorizedProgram.functions[process_out.function_name].input_types)
    /\ process_out.steps[Len(process_out.steps)] = "input_types"

\* C12: an authorize call, whether it succeeds or fails, leaves the stacks of
\* the process and the finalize store as they were; when it succeeds its
\* result is an Authorization of exactly one request, the one signed for the
\* called function and the given inputs, and when it fails there is none.
C12_AuthorizeOnlyReturns ==
    [][(process_out'.op = "authorize") =>
          /\ stacks' = stacks
          /\ store' = store
          /\ IF process_out'.ok
             THEN LET requests == process_out'.authorization.requests
                  IN /\ Len(requests) = 1
                     /\ requests[1].program_id = process_out'.program_id
                     /\ requests[1].function_name = process_out'.function_name
                     /\ Len(requests[1].inputs) = process_out'.num_inputs
             ELSE process_out'.authorization = None]_vars

\* An authorize call succeeded and returned its Authorization.
C12_Witness ==
    /\ process_out # None /\ process_out.op = "authorize" /\ process_out.ok
    /\ Len(process_out.authorization.requests) = 1
    /\ stacks # <<>>

C14_GetAbsentKeyFails ==
    [][(/\ finalize_out' # None
        /\ finalize_out'.command.variant = "Get"
        /\ finalize_out'.command.mapping \in DOMAIN store
        /\ finalize_out'.command.key \in DOMAIN registers
        /\ registers[finalize_out'.command.key]
               \notin DOMAIN store[finalize_out'.command.mapping])
       => (/\ ~finalize_out'.ok
           /\ finalize_out'.operation = None
           /\ registers' = registers
           /\ store' = store)]_vars

\* A Get failed on a key that the mapping, which has other entries, does not
\* hold, with the destination register assigned before.
C14_Witness ==
    /\ finalize_out # None /\ ~finalize_out.ok
    /\ finalize_out.command.variant = "Get"
    /\ finalize_out.command.mapping \in DOMAIN store
    /\ store[finalize_out.command.mapping] # <<>>
    /\ finalize_out.command.key \in DOMAIN registers
    /\ registers[finalize_out.command.key] \notin DOMAIN store[finalize_out.command.mapping]
    /\ finalize_out.command.destination \in DOMAIN registers

\* C15: finalizing a GetOrUse of an existing mapping never fails for a missing
\* key: with the key absent the destination register receives the default,
\* with the key present it receives the mapped value; in no case does a
\* GetOrUse change the store.
C15_GetOrUseFallsBack ==
    [][(finalize_out' # None /\ finalize_out'.command.variant = "GetOrUse") =>
          LET command == finalize_out'.command
          IN /\ store' = store
             /\ (/\ command.mapping \in DOMAIN store
                 /\ {command.key, command.default} \subseteq DOMAIN registers)
                => (/\ finalize_out'.ok
                    /\ registers' =
                          MapInsert(registers, command.destination,
                                    IF registers[command.key] \in DOMAIN store[command.mapping]
                                    THEN store[command.mapping][registers[command.key]]
                                    ELSE registers[command.default]))]_vars

\* A GetOrUse succeeded on a key that the mapping does not hold, and the
\* destination register holds the default.
C15_Witness ==
    /\ finalize_out # None /\ finalize_out.ok
    /\ finalize_out.command.variant = "GetOrUse"
    /\ finalize_out.command.key # finalize_out.command.destination
    /\ finalize_out.command.default # finalize_out.command.destination
    /\ registers[finalize_out.command.key] \notin DOMAIN store[finalize_out.command.mapping]
    /\ registers[finalize_out.command.destination] = registers[finalize_out.command.default]

(***************************************************************************)
(* Properties of the byte form of a command.                               *)
(***************************************************************************)
\* The variant that a variant byte stands for.
VariantOfByte(byte) ==
    CASE byte = 0 -> "Instruction"
      [] byte = 1 -> "Get"
      [] byte = 2 -> "GetOrUse"
      [] byte = 3 -> "Set"
      [] OTHER -> "none"

\* C16: a read takes the first byte as the variant: what it returns for the
\* bytes 0, 1, 2 and 3 is an Instruction, a Get, a GetOrUse and a Set, and it
\* fails for every byte from 4 to 255; it succeeds on the bytes of the
\* commands of the tests; a write puts the byte of the variant of the command
\* first.
C16_VariantByte ==
    /\ (codec_out # None /\ codec_out.op = "read_le") =>
          /\ codec_out.result.ok =>
                codec_out.result.command.variant = VariantOfByte(codec_out.bytes[1])
          /\ codec_out.bytes[1] >= 4 => ~codec_out.result.ok
          /\ codec_out.bytes \in {CommandWriteLe(command) : command \in TestCommands}
                => codec_out.result.ok
    /\ (codec_out # None /\ codec_out.op = "write_le") =>
          VariantOfByte(codec_out.bytes[1]) = codec_out.command.variant

\* A buffer with the variant byte 2 was read as a GetOrUse.
C16_Witness ==
    /\ codec_out # None /\ codec_out.op = "read_le"
    /\ codec_out.written = None
    /\ codec_out.bytes[1] = 2
    /\ codec_out.result.ok
    /\ codec_out.result.command.variant = "GetOrUse"

\* C17: reading the bytes that were written for a command succeeds and
\* returns that command.
C17_BytesRoundTrip ==
    (codec_out # None /\ codec_out.op = "read_le" /\ codec_out.written # None) =>
        /\ codec_out.result.ok
        /\ codec_out.result.command = codec_out.written

\* The bytes written for a get.or_use were read back.
C17_Witness ==
    /\ codec_out # None /\ codec_out.op = "read_le"
    /\ codec_out.written # None
    /\ codec_out.written.variant = "GetOrUse"
    /\ codec_out.result.ok

(***************************************************************************)
(* Properties of the text form of a command.                               *)
(***************************************************************************)
\* The last from_str call was on a text that Display prints for a command, or
\* on one of the four texts of the tests that are commands, followed by the
\* trailer of the call.
OnCommandText ==
    /\ text_out # None /\ text_out.op = "from_str"
    /\ text_out.origin # None \/ text_out.base \in {AddText, GetText, GetOrUseText, SetText}

\* The variant that the text of the last from_str call is written for.
VariantOfText ==
    IF text_out.origin # None THEN text_out.origin.variant
    ELSE CASE text_out.base = AddText -> "Instruction"
           [] text_out.base = GetText -> "Get"
           [] text_out.base = GetOrUseText -> "GetOrUse"
           [] text_out.base = SetText -> "Set"

\* C18: from_str on the text of a command of any of the four variants, with
\* nothing after it, succeeds with a command of the variant the text is
\* written for, and printing that command gives the text again, character by
\* character; for a text that was printed, the command is the printed one.
C18_TextRoundTrip ==
    (OnCommandText /\ text_out.trailer = <<>>) =>
        /\ text_out.result.ok
        /\ text_out.result.command.variant = VariantOfText
        /\ text_out.printed = text_out.base
        /\ text_out.origin # None => text_out.result.command = text_out.origin

\* The text "set r0 into object[r1];" was parsed as a Set and printed again.
C18_Witness ==
    /\ text_out # None /\ text_out.op = "from_str"
    /\ text_out.base = SetText /\ text_out.trailer = <<>>
    /\ text_out.result.ok
    /\ text_out.result.command.variant = "Set"
    /\ text_out.printed = SetText

\* C19: from_str fails whenever the parse leaves a remainder that is not
\* empty; the text of a command followed by further characters is rejected.
C19_RemainderRejected ==
    (text_out # None /\ text_out.op = "from_str") =>
        /\ text_out.result.ok => text_out.result.remainder = <<>>
        /\ (OnCommandText /\ text_out.trailer # <<>>) =>
              /\ ~text_out.result.ok
              /\ text_out.result.remainder = text_out.trailer

\* from_str rejected the text of a get.or_use followed by one space.
C19_Witness ==
    /\ OnCommandText
    /\ text_out.origin # None /\ text_out.origin.variant = "GetOrUse"
    /\ text_out.trailer = <<" ">>
    /\ ~text_out.result.ok
    /\ text_out.result.remainder = <<" ">>

(***************************************************************************)
(* Properties of the state-path circuit builder.                           *)
(***************************************************************************)
\* C20: a to_circuit_assignment call that finds the environment with counts
\* other than those of a clean one panics on its first assertion: it returns
\* no assignment and it leaves the environment as it found it, without a reset.
C20_UncleanEnvironmentAborts ==
    [][(circuit_out' # circuit_out) =>
          /\ circuit_out'.entry_count = circuit_env.count
          /\ circuit_env.count # CleanCount =>
                /\ circuit_out'.result = "panic"
                /\ circuit_out'.assignment = None
                /\ circuit_env' = circuit_env]_vars

\* A call panicked on an environment with gates left in it, which are still there.
C20_Witness ==
    /\ circuit_out # None /\ circuit_out.result = "panic"
    /\ circuit_out.entry_count = circuit_env.count
    /\ GatesOf(circuit_env) > 0

\* C21: a to_circuit_assignment call that returns leaves the environment
\* clean, and a call that finds the environment clean passes its entry
\* assertion and returns; so calls that follow one another with no other use
\* of the environment between them all pass the assertion.
C21_ReturnLeavesEnvironmentClean ==
    [][(circuit_out' # circuit_out) =>
          /\ circuit_out'.result = "ok" => circuit_env' = CleanEnvironment
          /\ circuit_env.count = CleanCount => circuit_out'.result = "ok"
          /\ (circuit_out # None /\ circuit_out.result = "ok"
                /\ circuit_env.count = CleanCount)
             => circuit_out'.entry_count = CleanCount]_vars

\* A call returned an assignment with private variables and constraints, and
\* the environment is clean.
C21_Witness ==
    /\ circuit_out # None /\ circuit_out.result = "ok"
    /\ circuit_out.assignment.num_private > 0
    /\ circuit_out.assignment.num_constraints > 0
    /\ circuit_env = CleanEnvironment

\* The serial number among the public values of a returned assignment.
PublicSerialNumber(out) == out.assignment.public[4]

\* Whether a call returned an assignment that satisfies its constraints.
ReturnedSatisfied(out) == out # None /\ out.result = "ok" /\ out.assignment.satisfied

\* C22: the assignment that to_circuit_assignment returns is satisfied only
\* when the public serial number is the one derived from the commitment and
\* gamma of the call; hence two satisfied assignments for the same commitment
\* and gamma carry the same public serial number.
C22_SerialNumberBound ==
    [][ReturnedSatisfied(circuit_out') =>
          /\ PublicSerialNumber(circuit_out') = circuit_out'.input.serial_number
          /\ PublicSerialNumber(circuit_out')
                = SerialNumberFromGamma(circuit_out'.input.gamma,
                                        circuit_out'.input.commitment)
          /\ (/\ ReturnedSatisfied(circuit_out)
              /\ circuit_out.input.commitment = circuit_out'.input.commitment
              /\ circuit_out.input.gamma = circuit_out'.input.gamma)
             => PublicSerialNumber(circuit_out) = PublicSerialNumber(circuit_out')]_vars

\* A call with a serial number other than the derived one returned an
\* assignment that is not satisfied.
C22_Witness ==
    /\ circuit_out # None /\ circuit_out.result = "ok"
    /\ ~circuit_out.assignment.satisfied
    /\ circuit_out.input.serial_number
           # SerialNumberFromGamma(circuit_out.input.gamma, circuit_out.input.commitment)
    /\ circuit_out.input.state_path.verifies
    /\ circuit_out.input.state_path.transition_leaf_id = circuit_out.input.commitment

(***************************************************************************)
(* Properties of the output-commitment index and the input tasks.          *)
(***************************************************************************)
\* C23: the output-commitment index is append-only: across every call of
\* insert_transition a commitment that is present stays present, and the
\* (transition ID, output index) pair stored for it stays the same.
C23_IndexAppendOnly ==
    [][\A commitment \in DOMAIN output_commitments :
          /\ commitment \in DOMAIN output_commitments'
          /\ output_commitments'[commitment] = output_commitments[commitment]]_vars

\* C24: an input task is never changed after it was created: across every
\* call of insert_transition each transition ID keeps its tasks, in place and
\* field for field, so a task created with is_local = FALSE keeps it when a
\* transition that produces its commitment is inserted afterwards.
C24_TasksNeverMutated ==
    [][\A tid \in DOMAIN input_tasks :
          /\ tid \in DOMAIN input_tasks'
          /\ Len(input_tasks'[tid]) >= Len(input_tasks[tid])
          /\ \A k \in 1..Len(input_tasks[tid]) :
                input_tasks'[tid][k] = input_tasks[tid][k]]_vars

\* A task that is not local although the index now holds its commitment, under
\* a transition ID that received tasks from two calls.
C24_Witness ==
    \E p \in TaskPlaces(input_tasks) :
        /\ ~input_tasks[p[1]][p[2]].is_local
        /\ input_tasks[p[1]][p[2]].commitment \in DOMAIN output_commitments
        /\ p[2] < Len(input_tasks[p[1]])
        /\ Cardinality({k \in DOMAIN transitions : transitions[k].id = p[1]}) >= 2

\* The calls of insert_transition that returned Ok, by position, whose
\* transition carries the ID tid.
InsertedUnder(tid) == {k \in DOMAIN transitions : transitions[k].id = tid}

\* C25: inserting a transition whose ID was already inserted fails and adds no
\* second set of input tasks: no transition ID is inserted successfully twice,
\* and the tasks under an ID are those of the one transition that carries it.
C25_DuplicateInsertFails ==
    \A tid \in TransitionIDs :
        /\ Cardinality(InsertedUnder(tid)) <= 1
        /\ \A k \in InsertedUnder(tid) :
              Len(input_tasks[tid])
                  = Cardinality({i \in DOMAIN transitions[k].inputs :
                                    transitions[k].inputs[i].variant = "Record"})

\* The positions (from 1) of the record-typed items of a list of inputs or outputs.
RecordPositions(items) == {i \in DOMAIN items : items[i].variant = "Record"}

\* The r-th smallest member of a set of positions.
NthOf(positions, r) ==
    CHOOSE i \in positions : Cardinality({x \in positions : x < i}) = r - 1

\* The record outputs of a transition that no later output of it repeats.
LastRecordPositions(outputs) ==
    {j \in RecordPositions(outputs) :
        \A later \in RecordPositions(outputs) :
            later > j => outputs[later].id # outputs[j].id}

C30_FailedInsertLeavesTracker ==
    [][(insert_result' # None /\ ~insert_result'.ok) =>
          /\ DOMAIN input_tasks' = DOMAIN input_tasks
          /\ input_tasks' = input_tasks
          /\ output_commitments' = output_commitments
          /\ transitions' = transitions]_vars

\* A count mismatch on a transition whose ID has no entry, in a tracker that
\* holds tasks and commitments of another transition.
C30_Witness ==
    /\ insert_result # None /\ ~insert_result.ok
    /\ "t1" \notin DOMAIN input_tasks
    /\ "t2" \in DOMAIN input_tasks /\ input_tasks["t2"] # <<>>
    /\ output_commitments # <<>>

\* C28: the deployment lifecycle. A call of deploy leaves the registry as it
\* was; a load_deployment that succeeds leaves the program registered; no call
\* takes a program out of the registry; and a verify_deployment of a program
\* ID that is registered fails on the check for the existing program. So after
\* a successful load_deployment every later verify_deployment of that program
\* ID fails with 'already exists'.
C28_DeploymentLifecycle ==
    [][/\ process_out'.op = "deploy" => stacks' = stacks
       /\ (process_out'.op = "load_deployment" /\ process_out'.ok)
              => (/\ ContainsProgram(stacks', process_out'.program_id)
                  /\ ~ContainsProgram(stacks, process_out'.program_id))
       /\ \A program_id \in ProgramIDs :
              ContainsProgram(stacks, program_id) => ContainsProgram(stacks', program_id)
       /\ (process_out'.op = "verify_deployment"
               /\ ContainsProgram(stacks', process_out'.program_id))
              => (~process_out'.ok /\ process_out'.steps = <<"contains_program">>)]_vars

\* A verify_deployment of a loaded program, whose stack holds the verifying keys
\* of the deployment, failed on the check for the existing program, while the
\* other program ID is still free.
C28_Witness ==
    /\ process_out # None
    /\ process_out.op = "verify_deployment" /\ ~process_out.ok
    /\ process_out.steps = <<"contains_program">>
    /\ DOMAIN stacks = {process_out.program_id}
    /\ stacks[process_out.program_id].verifying_keys # <<>>

\* C31: read-after-write on the finalize store. A Set that succeeds leaves
\* mapping[key] = value and every other entry as it was; an Instruction, a Get,
\* a GetOrUse, a failed command and the start of a scope leave the store as it
\* was; and a Get or GetOrUse of a key that the mapping holds succeeds and
\* puts the stored value into its destination register. So a Get or GetOrUse
\* reads the value of the last Set on its key.
C31_ReadAfterWrite ==
    [][/\ finalize_out' = None => store' = store
       /\ finalize_out' # None =>
             LET command == finalize_out'.command
             IN /\ (command.variant = "Set" /\ finalize_out'.ok) =>
                      LET key == registers[command.key]
                          value == registers[command.value]
                      IN /\ DOMAIN store' = DOMAIN store
                         /\ key \in DOMAIN store'[command.mapping]
                         /\ store'[command.mapping][key] = value
                         /\ \A mapping \in DOMAIN store :
                               \A other \in DOMAIN store[mapping] :
                                   (mapping # command.mapping \/ other # key)
                                   => (/\ other \in DOMAIN store'[mapping]
                                       /\ store'[mapping][other] = store[mapping][other])
                         /\ \A mapping \in DOMAIN store' :
                               DOMAIN store'[mapping] \subseteq
                                   DOMAIN store[mapping] \cup {key}
                         /\ registers' = registers
                /\ (command.variant # "Set" \/ ~finalize_out'.ok) => store' = store
                /\ (/\ command.variant \in {"Get", "GetOrUse"}
                    /\ command.mapping \in DOMAIN store
                    /\ command.key \in DOMAIN registers
                    /\ command.variant = "GetOrUse" => command.default \in DOMAIN registers
                    /\ registers[command.key] \in DOMAIN store[command.mapping])
                   => (/\ finalize_out'.ok
                       /\ registers'[command.destination]
                             = store[command.mapping][registers[command.key]])]_vars

\* A Get read the entry of its key from a mapping that holds two entries with
\* different values, each written by a Set.
C31_Witness ==
    /\ finalize_out # None /\ finalize_out.ok
    /\ finalize_out.command.variant = "Get"
    /\ finalize_out.command.key # finalize_out.command.destination
    /\ DOMAIN store["object"] = {0, 1}
    /\ store["object"][0] # store["object"][1]
    /\ registers[finalize_out.command.destination]
          = store["object"][registers[finalize_out.command.key]]

====
